---- MODULE Spec2Model ----
(***************************************************************************)
(* State-machine model of colony/node.py: Graph, OutputPort, the input     *)
(* port variants, SyncWorker, AsyncWorker and Node.                        *)
(*                                                                         *)
(* Node ids are positions in Graph.nodes.  One main thread drives the      *)
(* graph (Graph.start, Node.notify, KwargInputPort.notify,                 *)
(* AsyncWorker.join, Graph.stop); every AsyncWorker owns num_threads       *)
(* execution threads and one result thread, which interleave freely.       *)
(***************************************************************************)
EXTENDS Integers, Sequences, FiniteSets, TLC

\* ------------------------------------------------------------------ bounds
NumThreads == 2      \* num_threads given to every AsyncWorker
MaxTriggers == 2     \* external Node.notify / KwargInputPort.notify calls
MaxStarts == 2       \* Graph.start calls
MaxBatchSize == 2    \* the batch_size values are 1..MaxBatchSize
MaxLen == 5          \* longest payload fed to a BatchArgInputPort
MaxDefaults == 3     \* longest default_reactive_input_values list

\* ------------------------------------------------------------------ values
\* Python values that flow through the ports: None, an int, a list of ints.
\* "absent" marks a key that a keyword dictionary does not hold.
NoneV == [k |-> "none", n |-> 0, l |-> <<>>]
AbsentV == [k |-> "absent", n |-> 0, l |-> <<>>]
IntV(i) == [k |-> "int", n |-> i, l |-> <<>>]
ListV(s) == [k |-> "list", n |-> 0, l |-> s]

\* The payloads the main thread feeds into the graph.
Payloads == {NoneV, IntV(1), ListV(<<1, 2, 3>>)}

NoIdx == 0 - 1       \* idx=None
NoKwarg == ""        \* kwarg=None
Kwargs == {"b", "c"} \* the keyword names the targets use
NoKwargs == [b |-> AbsentV, c |-> AbsentV]

\* ----------------------------------------------------------- work targets
\* The work functions wired into the nodes:
\*   def double(x): return x + x
\*   def add(a, b=10, c=0): return a + b + c
\*   def add2(a0, a1, b=10): return a0 + a1 + b
\* FunctionInfo(target).num_args
Arity(tf) == IF tf = "add2" THEN 2 ELSE 1

\* FunctionInfo(target).kwargs: the keyword parameters and their defaults
KwDefaults(tf) ==
    CASE tf = "double" -> NoKwargs
      [] tf = "add2" -> [b |-> IntV(10), c |-> AbsentV]
      [] tf = "add" -> [b |-> IntV(10), c |-> IntV(0)]

\* The operands of the target's chain of "+", left to right.
Operands(tf, args, kwargs) ==
    CASE tf = "double" -> args \o args
      [] tf = "add2" -> args \o <<kwargs.b>>
      [] tf = "add" -> args \o <<kwargs.b, kwargs.c>>

RECURSIVE PlusAll(_)
\* Python "+" folded over operands of one kind: int addition or list
\* concatenation.
PlusAll(ops) ==
    IF Len(ops) = 1 THEN ops[1]
    ELSE LET r == PlusAll(SubSeq(ops, 1, Len(ops) - 1))
             x == ops[Len(ops)]
         IN IF r.k = "int" THEN IntV(r.n + x.n) ELSE ListV(r.l \o x.l)

\* target(*args, **kwargs) raises: a TypeError for a wrong argument count,
\* for an unexpected keyword, or for "+" on None or on an int and a list.
TargetRaises(tf, args, kwargs) ==
    \/ Len(args) # Arity(tf)
    \/ \E kw \in Kwargs :
           (kwargs[kw].k = "absent") # (KwDefaults(tf)[kw].k = "absent")
    \/ LET ops == Operands(tf, args, kwargs)
       IN \/ \E i \in 1..Len(ops) : ops[i].k \notin {"int", "list"}
          \/ \E i, j \in 1..Len(ops) : ops[i].k # ops[j].k

\* target(*args, **kwargs) when it returns.
TargetResult(tf, args, kwargs) == PlusAll(Operands(tf, args, kwargs))

\* ---------------------------------------------------------------- wiring
\* An input port of a node: ArgInputPort, MappingArgInputPort or
\* BatchArgInputPort (with its batch_size).
ArgPort == [kind |-> "arg", batch_size |-> 0]
MappingPort == [kind |-> "mapping", batch_size |-> 0]
BatchPort(batch_size) == [kind |-> "batch", batch_size |-> batch_size]

\* A registered observer: reactive port idx of a node, or its passive port
\* kwarg.
Reactive(m, i) == [node |-> m, idx |-> i, kwarg |-> NoKwarg]
Passive(m, kw) == [node |-> m, idx |-> NoIdx, kwarg |-> kw]

\* What Node.__init__ fixes for a node: the target, the worker class (with
\* num_threads for an AsyncWorker), the reactive input ports and (filled in
\* by the downstream constructors) the observers registered on its output
\* port, in registration order.  default_reactive_input_values is <<>>
\* when the argument is not given.
NewNode(tf, wc, num_threads, ports, obs) ==
    [target_func |-> tf, worker |-> wc, num_threads |-> num_threads,
     reactive_input_ports |-> ports, observers |-> obs,
     default_reactive_input_values |-> <<>>]
Node(tf, ports, obs) == NewNode(tf, "SyncWorker", 0, ports, obs)
ThreadNode(tf, num_threads, ports, obs) ==
    NewNode(tf, "AsyncWorker", num_threads, ports, obs)

\* g.add_thread_node(double, num_threads=NumThreads) feeding
\* g.add_node(double, reactive_input_ports=MappingArgInputPort()).
MappingGraph ==
    << ThreadNode("double", NumThreads, <<ArgPort>>, <<Reactive(2, 0)>>),
       Node("double", <<MappingPort>>, <<>>) >>

\* Sync and async nodes alternating in the list, each feeding the next;
\* the thread nodes are built with num_threads=1.
MixedGraph ==
    << Node("double", <<ArgPort>>, <<Reactive(2, 0)>>),
       ThreadNode("double", 1, <<ArgPort>>, <<Reactive(3, 0)>>),
       Node("double", <<ArgPort>>, <<Reactive(4, 0)>>),
       ThreadNode("double", 1, <<ArgPort>>, <<>>) >>

\* All nodes synchronous: double observed, in this order, by add2's port 0,
\* by add2's keyword b and by a mapping port; add2 feeds add.
SyncGraph ==
    << Node("double", <<ArgPort>>,
            <<Reactive(2, 0), Passive(2, "b"), Reactive(3, 0)>>),
       Node("add2", <<ArgPort, ArgPort>>, <<Reactive(4, 0)>>),
       Node("add", <<MappingPort>>, <<>>),
       Node("add", <<ArgPort>>, <<>>) >>

\* Node(target_func=tf, default_reactive_input_values=defaults), with no
\* explicit ports: lines 302-306 make one ArgInputPort per argument.
DefaultsNode(tf, defaults) ==
    [Node(tf, [i \in 1..Arity(tf) |-> ArgPort], <<>>)
        EXCEPT !.default_reactive_input_values = defaults]

\* The default_reactive_input_values lists a caller may pass: 0 to
\* MaxDefaults ints.
DefaultsChoices == {[i \in 1..L |-> IntV(i)] : L \in 0..MaxDefaults}

\* Two thread nodes feeding the two reactive ports of one SyncWorker node.
FanInGraph ==
    << ThreadNode("double", 1, <<ArgPort>>, <<Reactive(3, 0)>>),
       ThreadNode("double", 1, <<ArgPort>>, <<Reactive(3, 1)>>),
       Node("add2", <<ArgPort, ArgPort>>, <<>>) >>

\* A thread node with a pool of execution threads feeding a synchronous
\* node through an ArgInputPort, which takes any payload.
PoolGraph ==
    << ThreadNode("double", NumThreads, <<ArgPort>>, <<Reactive(2, 0)>>),
       Node("double", <<ArgPort>>, <<>>) >>

\* One node per batch_size, each behind a BatchArgInputPort.
BatchGraph ==
    [b \in 1..MaxBatchSize |-> Node("double", <<BatchPort(b)>>, <<>>)]

\* The payloads the main thread feeds into the batch ports: the lists
\* [1, ..., L].
BatchPayloads == {ListV([i \in 1..L |-> i]) : L \in 0..MaxLen}

\* ------------------------------------------------------------------ state
VARIABLES
    nodes,                  \* Graph.nodes
    is_alive,               \* Graph.is_alive
    reactive_input_values,  \* Node.reactive_input_values, per node
    passive_input_values,   \* Node.passive_input_values, per node
    value,                  \* Node._value, per node
    isStarted,              \* SyncWorker.isStarted, per node
    worker_queue,           \* AsyncWorker.worker_queue, per node
    result_queue,           \* AsyncWorker.result_queue, per node
    worker_threads,         \* AsyncWorker.worker_threads, per node
    result_thread,          \* AsyncWorker.result_thread, per node
    mpc,                    \* where the main thread is
    gi,                     \* Graph.stop: position of its loop over nodes
    si,                     \* AsyncWorker.stop: position of its loops
    triggers,               \* external calls made so far
    starts,                 \* Graph.start calls made so far
    executes,               \* worker.execute calls, per node, in order
    calls,                  \* target invocations, per node, in order
    emitted,                \* output_port.notify calls, per node, in order
    port_log,               \* observer.notify calls, per output port
    hi_raised,              \* nodes whose handle_input raised
    stop_log                \* node.stop() calls and returns of Graph.stop

topo == <<nodes>>
heap_vars == <<reactive_input_values, passive_input_values, value,
               worker_queue, executes, calls, emitted, port_log,
               hi_raised>>
main_vars == <<mpc, gi, si>>
vars == <<nodes, is_alive, reactive_input_values, passive_input_values,
          value, isStarted, worker_queue, result_queue, worker_threads,
          result_thread, mpc, gi, si, triggers, starts, executes,
          calls, emitted, port_log, hi_raised, stop_log>>

Ids == 1..Len(nodes)
IsAsync(n) == nodes[n].worker = "AsyncWorker"
IsSync(n) == nodes[n].worker = "SyncWorker"

\* A queue.Queue (or multiprocessing.JoinableQueue): its items in FIFO
\* order and its count of unfinished tasks; made is FALSE while the
\* attribute is still None.
NoQueue == [made |-> FALSE, items |-> <<>>, unfinished |-> 0]
EmptyQueue == [made |-> TRUE, items |-> <<>>, unfinished |-> 0]
\* Faulty variant of Put: the item goes to the front of the queue.
PutFirst(q, item) ==
    [q EXCEPT !.items = <<item>> \o @, !.unfinished = @ + 1]

\* Queue.put(item)
Put(q, item) ==
    [q EXCEPT !.items = Append(@, item), !.unfinished = @ + 1]
\* Queue.task_done()
TaskDone(q) == [q EXCEPT !.unfinished = @ - 1]

PoisonPill == [pill |-> TRUE, args |-> <<>>, kwargs |-> NoKwargs,
               result |-> NoneV]
Work(args, kwargs) == [pill |-> FALSE, args |-> args, kwargs |-> kwargs,
                       result |-> NoneV]
Result(r) == [pill |-> FALSE, args |-> <<>>, kwargs |-> NoKwargs,
              result |-> r]

\* The part of the state a chain of synchronous calls reads and writes.
Heap ==
    [riv |-> reactive_input_values, piv |-> passive_input_values,
     value |-> value, wq |-> worker_queue, executes |-> executes,
     calls |-> calls, emitted |-> emitted, port_log |-> port_log,
     hi_raised |-> hi_raised]

Returned(h) == [h |-> h, exc |-> FALSE]
Raised(h) == [h |-> h, exc |-> TRUE]

\* One target invocation as recorded in calls: its arguments and whether
\* it returned (ok) or raised.
Call(args, kwargs, ok) == [args |-> args, kwargs |-> kwargs, ok |-> ok]

RECURSIVE Chunks(_, _, _), ChunksDropsTail(_, _, _)
\* Faulty variant of Chunks: a last chunk shorter than batch_size is dropped.
ChunksDropsTail(payload, batch_size, i) ==
    IF i + batch_size > Len(payload) THEN <<>>
    ELSE <<SubSeq(payload, i + 1, i + batch_size)>>
             \o ChunksDropsTail(payload, batch_size, i + batch_size)

\* BatchArgInputPort.chunks: payload[i:i + batch_size] for i in
\* range(0, len(payload), batch_size), from 0-based offset i on.
Chunks(payload, batch_size, i) ==
    IF i >= Len(payload) THEN <<>>
    ELSE LET hi == IF i + batch_size > Len(payload) THEN Len(payload)
                   ELSE i + batch_size
         IN <<SubSeq(payload, i + 1, hi)>>
                \o Chunks(payload, batch_size, i + batch_size)

RECURSIVE HandleInputs(_, _, _, _), NotifyObservers(_, _, _, _)
RECURSIVE HandleInput(_, _, _, _, _), PortNotify(_, _, _)
RECURSIVE HandleResult(_, _, _), SyncExecute(_, _), Execute(_, _)
RECURSIVE OutputPortNotify(_, _, _)

\* Faulty variant of OutputPortNotify: the first registered observer is
\* left out.
OutputPortNotifySkipsFirst(h, n, data) ==
    LET r == NotifyObservers(h, n, data, 2)
    IN [h |-> [r.h EXCEPT !.emitted[n] =
                   Append(@, [data |-> data, ok |-> ~r.exc])],
        exc |-> r.exc]

\* OutputPort.notify(data): notify_observers(data); the call is recorded
\* in emitted with whether it returned (ok) or raised.
OutputPortNotify(h, n, data) ==
    LET r == NotifyObservers(h, n, data, 1)
    IN [h |-> [r.h EXCEPT !.emitted[n] =
                   Append(@, [data |-> data, ok |-> ~r.exc])],
        exc |-> r.exc]

\* Worker._handle_result: node.set_value(result), then
\* node.output_port.notify(result).
HandleResult(h, n, result) ==
    OutputPortNotify([h EXCEPT !.value[n] = result], n, result)

\* Observable.notify_observers: observer.notify(data) for the observers
\* from position j on, in registration order; an exception of an observer
\* ends the loop and propagates.
NotifyObservers(h, n, data, j) ==
    IF j > Len(nodes[n].observers) THEN Returned(h)
    ELSE LET k == Len(h.emitted[n]) + 1
             h1 == [h EXCEPT !.port_log[n] =
                        Append(@, [obs |-> j, data |-> data, k |-> k])]
             r == PortNotify(h1, nodes[n].observers[j], data)
         IN IF r.exc THEN r ELSE NotifyObservers(r.h, n, data, j + 1)

\* Faulty variant of SyncExecute: a failed invocation still goes through the
\* result step, with None.
SyncExecuteHandlesFailure(h, n) ==
    LET args == h.riv[n]
        kwargs == h.piv[n]
        tf == nodes[n].target_func
    IN IF ~isStarted[n] THEN Returned(h)
       ELSE IF TargetRaises(tf, args, kwargs)
       THEN Returned(HandleResult(
                [h EXCEPT !.calls[n] = Append(@, Call(args, kwargs, FALSE))],
                n, NoneV).h)
       ELSE Returned(HandleResult(
                [h EXCEPT !.calls[n] = Append(@, Call(args, kwargs, TRUE))],
                n, TargetResult(tf, args, kwargs)).h)

\* SyncWorker.execute(*args, **kwargs) with the node's cached inputs: every
\* exception, of the target, of _handle_result or the "not started" one, is
\* caught and logged.
SyncExecute(h, n) ==
    LET args == h.riv[n]
        kwargs == h.piv[n]
        tf == nodes[n].target_func
    IN IF ~isStarted[n] THEN Returned(h)
       ELSE IF TargetRaises(tf, args, kwargs)
       THEN Returned([h EXCEPT !.calls[n] =
                         Append(@, Call(args, kwargs, FALSE))])
       ELSE Returned(HandleResult(
                [h EXCEPT !.calls[n] = Append(@, Call(args, kwargs, TRUE))],
                n, TargetResult(tf, args, kwargs)).h)

\* One worker.execute call as recorded in executes: its arguments and
\* whether it raised.
Executed(args, kwargs, raised) ==
    [args |-> args, kwargs |-> kwargs, raised |-> raised]

\* worker.execute(*reactive_input_values, **passive_input_values).
\* AsyncWorker.execute: worker_queue.put((args, kwargs)), an AttributeError
\* while worker_queue is None.
Execute(h, n) ==
    LET args == h.riv[n]
        kwargs == h.piv[n]
    IN IF IsSync(n)
       THEN SyncExecute([h EXCEPT !.executes[n] =
                            Append(@, Executed(args, kwargs, FALSE))], n)
       ELSE IF ~h.wq[n].made
       THEN Raised([h EXCEPT !.executes[n] =
                       Append(@, Executed(args, kwargs, TRUE))])
       ELSE Returned([h EXCEPT !.executes[n] =
                         Append(@, Executed(args, kwargs, FALSE)),
                       !.wq[n] = Put(@, Work(args, kwargs))])

\* Faulty variant of HandleInput: the worker is triggered only once every
\* reactive position holds a value.
HandleInputWaitsForAll(h, n, data, idx, kwarg) ==
    IF kwarg # NoKwarg
    THEN Returned([h EXCEPT !.piv[n][kwarg] = data])
    ELSE IF idx # NoIdx /\ idx >= Len(h.riv[n])
    THEN Raised([h EXCEPT !.hi_raised = @ \cup {n}])
    ELSE LET h1 == IF idx # NoIdx THEN [h EXCEPT !.riv[n][idx + 1] = data]
                   ELSE h
         IN IF \E i \in 1..Len(h1.riv[n]) : h1.riv[n][i] = NoneV
            THEN Returned(h1)
            ELSE Returned(Execute(h1, n).h)

\* Faulty variant of HandleInput: a keyword update triggers the worker as well.
HandleInputKwargTriggers(h, n, data, idx, kwarg) ==
    IF idx # NoIdx /\ idx >= Len(h.riv[n])
    THEN Raised([h EXCEPT !.hi_raised = @ \cup {n}])
    ELSE LET h1 == IF kwarg # NoKwarg THEN [h EXCEPT !.piv[n][kwarg] = data]
                   ELSE IF idx # NoIdx
                   THEN [h EXCEPT !.riv[n][idx + 1] = data]
                   ELSE h
         IN Returned(Execute(h1, n).h)

\* Node.handle_input(data, idx, kwarg)
\* Faulty variant of HandleInput: the reactive position is written only
\* when the SyncWorker is started.
HandleInputStoresWhenStarted(h, n, data, idx, kwarg) ==
    IF kwarg # NoKwarg
    THEN Returned([h EXCEPT !.piv[n][kwarg] = data])
    ELSE IF idx # NoIdx /\ idx >= Len(h.riv[n])
    THEN Raised([h EXCEPT !.hi_raised = @ \cup {n}])
    ELSE LET h1 == IF idx # NoIdx /\ (IsAsync(n) \/ isStarted[n])
                   THEN [h EXCEPT !.riv[n][idx + 1] = data]
                   ELSE h
         IN Returned(Execute(h1, n).h)

HandleInput(h, n, data, idx, kwarg) ==
    IF kwarg # NoKwarg
    THEN Returned([h EXCEPT !.piv[n][kwarg] = data])
    ELSE IF idx # NoIdx /\ idx >= Len(h.riv[n])
    THEN Raised([h EXCEPT !.hi_raised = @ \cup {n}])
    ELSE LET h1 == IF idx # NoIdx THEN [h EXCEPT !.riv[n][idx + 1] = data]
                   ELSE h
         IN Returned(Execute(h1, n).h)

\* handle_input(x, idx=idx) for each x of items, in order.
HandleInputs(h, n, items, idx) ==
    IF items = <<>> THEN Returned(h)
    ELSE LET r == HandleInput(h, n, Head(items), idx, NoKwarg)
         IN IF r.exc THEN r ELSE HandleInputs(r.h, n, Tail(items), idx)

\* port.notify(data) of the input port variants.  Iterating, or taking
\* len() of, a value that is no list raises a TypeError; range() with a
\* step of 0 raises a ValueError.
PortNotify(h, port, data) ==
    IF port.kwarg # NoKwarg
    THEN HandleInput(h, port.node, data, NoIdx, port.kwarg)
    ELSE LET p == nodes[port.node].reactive_input_ports[port.idx + 1]
         IN CASE p.kind = "arg" ->
                    HandleInput(h, port.node, data, port.idx, NoKwarg)
              [] p.kind = "mapping" ->
                    IF data.k # "list" THEN Raised(h)
                    ELSE HandleInputs(h, port.node,
                             [i \in 1..Len(data.l) |-> IntV(data.l[i])],
                             port.idx)
              [] p.kind = "batch" ->
                    IF data.k # "list" \/ p.batch_size = 0 THEN Raised(h)
                    ELSE LET cs == Chunks(data.l, p.batch_size, 0)
                         IN HandleInputs(h, port.node,
                                [i \in 1..Len(cs) |-> ListV(cs[i])],
                                port.idx)

\* ------------------------------------------------------------- operations
\* A thread that holds no queue item.
NoItem == [pill |-> FALSE, args |-> <<>>, kwargs |-> NoKwargs,
           result |-> AbsentV]
\* A thread: where it is, the queue item it holds, and whether an
\* invocation it made has raised.
Thread(pc, item, failed) == [pc |-> pc, item |-> item, failed |-> failed]

\* The state after Graph() and the g.add_*node(...) calls that build graph:
\* lines 14-19, 275-347, 157-160 and 185-195.
InitGraph(graph) ==
    /\ nodes = graph
    /\ is_alive = FALSE
    /\ reactive_input_values =
           [n \in 1..Len(graph) |->
               IF graph[n].default_reactive_input_values # <<>>
               THEN graph[n].default_reactive_input_values
               ELSE [i \in 1..Len(graph[n].reactive_input_ports) |-> NoneV]]
    /\ passive_input_values =
           [n \in 1..Len(graph) |-> KwDefaults(graph[n].target_func)]
    /\ value = [n \in 1..Len(graph) |-> NoneV]
    /\ isStarted = [n \in 1..Len(graph) |-> FALSE]
    /\ worker_queue = [n \in 1..Len(graph) |-> NoQueue]
    /\ result_queue = [n \in 1..Len(graph) |-> NoQueue]
    /\ worker_threads = [n \in 1..Len(graph) |-> <<>>]
    /\ result_thread = [n \in 1..Len(graph) |-> Thread("none", NoItem, FALSE)]
    /\ mpc = "idle"
    /\ gi = 0
    /\ si = 0
    /\ triggers = 0
    /\ starts = 0
    /\ executes = [n \in 1..Len(graph) |-> <<>>]
    /\ calls = [n \in 1..Len(graph) |-> <<>>]
    /\ emitted = [n \in 1..Len(graph) |-> <<>>]
    /\ port_log = [n \in 1..Len(graph) |-> <<>>]
    /\ hi_raised = {}
    /\ stop_log = <<>>

\* The state a chain of synchronous calls leaves behind.
Store(h) ==
    /\ reactive_input_values' = h.riv
    /\ passive_input_values' = h.piv
    /\ value' = h.value
    /\ worker_queue' = h.wq
    /\ executes' = h.executes
    /\ calls' = h.calls
    /\ emitted' = h.emitted
    /\ port_log' = h.port_log
    /\ hi_raised' = h.hi_raised

\* Graph.start: node.start() for every node in list order, then is_alive.
\* SyncWorker.start resolves the target and sets isStarted;
\* AsyncWorker.start makes two fresh queues and starts num_threads
\* execution threads and the result thread.
\* Faulty variant of GraphStart: AsyncWorker.start keeps the queues it
\* already has.
GraphStartKeepsQueues ==
    /\ mpc = "idle"
    /\ ~is_alive
    /\ starts < MaxStarts
    /\ isStarted' = [n \in Ids |-> IsSync(n)]
    /\ worker_queue' =
           [n \in Ids |-> IF IsAsync(n) /\ ~worker_queue[n].made
                          THEN EmptyQueue ELSE worker_queue[n]]
    /\ result_queue' =
           [n \in Ids |-> IF IsAsync(n) /\ ~result_queue[n].made
                          THEN EmptyQueue ELSE result_queue[n]]
    /\ worker_threads' =
           [n \in Ids |-> IF IsAsync(n)
                          THEN [w \in 1..nodes[n].num_threads |->
                                   Thread("get", NoItem, FALSE)]
                          ELSE worker_threads[n]]
    /\ result_thread' =
           [n \in Ids |-> IF IsAsync(n) THEN Thread("get", NoItem, FALSE)
                          ELSE result_thread[n]]
    /\ is_alive' = TRUE
    /\ starts' = starts + 1
    /\ UNCHANGED <<nodes, reactive_input_values, passive_input_values, value,
                   mpc, gi, si, triggers, executes, calls, emitted, port_log,
                   hi_raised, stop_log>>

GraphStart ==
    /\ mpc = "idle"
    /\ ~is_alive
    /\ starts < MaxStarts
    /\ isStarted' = [n \in Ids |-> IsSync(n)]
    /\ worker_queue' =
           [n \in Ids |-> IF IsAsync(n) THEN EmptyQueue ELSE worker_queue[n]]
    /\ result_queue' =
           [n \in Ids |-> IF IsAsync(n) THEN EmptyQueue ELSE result_queue[n]]
    /\ worker_threads' =
           [n \in Ids |-> IF IsAsync(n)
                          THEN [w \in 1..nodes[n].num_threads |->
                                   Thread("get", NoItem, FALSE)]
                          ELSE worker_threads[n]]
    /\ result_thread' =
           [n \in Ids |-> IF IsAsync(n) THEN Thread("get", NoItem, FALSE)
                          ELSE result_thread[n]]
    /\ is_alive' = TRUE
    /\ starts' = starts + 1
    /\ UNCHANGED <<nodes, reactive_input_values, passive_input_values, value,
                   mpc, gi, si, triggers, executes, calls, emitted, port_log,
                   hi_raised, stop_log>>

\* The ports no upstream node was wired to at construction: where the main
\* thread feeds the graph.
Unwired(port) == \A m \in Ids : \A j \in 1..Len(nodes[m].observers) :
                     nodes[m].observers[j] # port

\* Node.notify(data, port_idx) called by the main thread.
NodeNotify(n, data, port_idx) ==
    /\ mpc = "idle"
    /\ triggers < MaxTriggers
    /\ Unwired(Reactive(n, port_idx))
    /\ data = NoneV => port_idx = 0
    /\ LET r == IF data = NoneV
                THEN HandleInput(Heap, n, data, NoIdx, NoKwarg)
                ELSE PortNotify(Heap, Reactive(n, port_idx), data)
       IN Store(r.h)
    /\ triggers' = triggers + 1
    /\ UNCHANGED <<nodes, is_alive, isStarted, result_queue, worker_threads,
                   result_thread, mpc, gi, si, starts, stop_log>>

\* node.passive_input_ports[kwarg].notify(data) called by the main thread.
KwargNotify(n, kwarg, data) ==
    /\ mpc = "idle"
    /\ triggers < MaxTriggers
    /\ passive_input_values[n][kwarg].k # "absent"
    /\ Unwired(Passive(n, kwarg))
    /\ LET r == PortNotify(Heap, Passive(n, kwarg), data)
       IN Store(r.h)
    /\ triggers' = triggers + 1
    /\ UNCHANGED <<nodes, is_alive, isStarted, result_queue, worker_threads,
                   result_thread, mpc, gi, si, starts, stop_log>>

\* AsyncWorker._worker, lines 232-235 and 237: worker_queue.get(); a poison
\* pill is acknowledged and ends the thread.
WorkerGet(n, w) ==
    /\ IsAsync(n)
    /\ worker_threads[n][w].pc = "get"
    /\ worker_queue[n].items # <<>>
    /\ LET item == Head(worker_queue[n].items)
           rest == [worker_queue[n] EXCEPT !.items = Tail(@)]
       IN IF item.pill
          THEN /\ worker_queue' = [worker_queue EXCEPT ![n] = TaskDone(rest)]
               /\ worker_threads' =
                      [worker_threads EXCEPT ![n][w] =
                          Thread("dead", NoItem, @.failed)]
          ELSE /\ worker_queue' = [worker_queue EXCEPT ![n] = rest]
               /\ worker_threads' =
                      [worker_threads EXCEPT ![n][w] =
                          Thread("run", item, @.failed)]
    /\ UNCHANGED <<nodes, is_alive, reactive_input_values,
                   passive_input_values, value, isStarted, result_queue,
                   result_thread, mpc, gi, si, triggers, starts,
                   executes, calls, emitted, port_log, hi_raised,
                   stop_log>>

\* Faulty variant of WorkerInvoke: the exception of the target is not caught and
\* ends the execution thread.
WorkerInvokeUncaught(n, w) ==
    LET item == worker_threads[n][w].item
        tf == nodes[n].target_func
    IN IF TargetRaises(tf, item.args, item.kwargs)
       THEN [ok |-> FALSE, pc |-> "dead", item |-> NoItem,
             rq |-> result_queue[n]]
       ELSE [ok |-> TRUE, pc |-> "task_done", item |-> item,
             rq |-> Put(result_queue[n],
                        Result(TargetResult(tf, item.args, item.kwargs)))]

\* Faulty variant of WorkerInvoke: the result is put twice.
WorkerInvokePutsTwice(n, w) ==
    LET item == worker_threads[n][w].item
        tf == nodes[n].target_func
        res == Result(TargetResult(tf, item.args, item.kwargs))
    IN IF TargetRaises(tf, item.args, item.kwargs)
       THEN [ok |-> FALSE, pc |-> "get", item |-> NoItem,
             rq |-> result_queue[n]]
       ELSE [ok |-> TRUE, pc |-> "task_done", item |-> item,
             rq |-> Put(Put(result_queue[n], res), res)]

\* What the execution thread does with the item it holds, lines 238-244:
\* the next position of the thread and the result queue.
WorkerInvoke(n, w) ==
    LET item == worker_threads[n][w].item
        tf == nodes[n].target_func
    IN IF TargetRaises(tf, item.args, item.kwargs)
       THEN [ok |-> FALSE, pc |-> "get", item |-> NoItem,
             rq |-> result_queue[n]]
       ELSE [ok |-> TRUE, pc |-> "task_done", item |-> item,
             rq |-> Put(result_queue[n],
                        Result(TargetResult(tf, item.args, item.kwargs)))]

\* AsyncWorker._worker, lines 238-244: invoke the target; a failure is
\* logged and the loop goes on, a result is put on the result queue.
WorkerRun(n, w) ==
    /\ IsAsync(n)
    /\ worker_threads[n][w].pc = "run"
    /\ LET item == worker_threads[n][w].item
           r == WorkerInvoke(n, w)
       IN /\ calls' = [calls EXCEPT ![n] =
                          Append(@, Call(item.args, item.kwargs, r.ok))]
          /\ result_queue' = [result_queue EXCEPT ![n] = r.rq]
          /\ worker_threads' =
                 [worker_threads EXCEPT ![n][w] =
                     Thread(r.pc, r.item, @.failed \/ ~r.ok)]
    /\ UNCHANGED <<nodes, is_alive, reactive_input_values,
                   passive_input_values, value, isStarted, worker_queue,
                   result_thread, mpc, gi, si, triggers, starts,
                   executes, emitted, port_log, hi_raised,
                   stop_log>>

\* AsyncWorker._worker, line 245: worker_queue.task_done() after the put.
WorkerTaskDone(n, w) ==
    /\ IsAsync(n)
    /\ worker_threads[n][w].pc = "task_done"
    /\ worker_queue' = [worker_queue EXCEPT ![n] = TaskDone(@)]
    /\ worker_threads' =
           [worker_threads EXCEPT ![n][w] = Thread("get", NoItem, @.failed)]
    /\ UNCHANGED <<nodes, is_alive, reactive_input_values,
                   passive_input_values, value, isStarted, result_queue,
                   result_thread, mpc, gi, si, triggers, starts,
                   executes, calls, emitted, port_log, hi_raised,
                   stop_log>>

\* AsyncWorker._result_handler, lines 249-254: result_queue.get(); a poison
\* pill is acknowledged and ends the thread.
ResultGet(n) ==
    /\ IsAsync(n)
    /\ result_thread[n].pc = "get"
    /\ result_queue[n].items # <<>>
    /\ LET item == Head(result_queue[n].items)
           rest == [result_queue[n] EXCEPT !.items = Tail(@)]
       IN IF item.pill
          THEN /\ result_queue' = [result_queue EXCEPT ![n] = TaskDone(rest)]
               /\ result_thread' =
                      [result_thread EXCEPT ![n] =
                          Thread("dead", NoItem, FALSE)]
          ELSE /\ result_queue' = [result_queue EXCEPT ![n] = rest]
               /\ result_thread' =
                      [result_thread EXCEPT ![n] =
                          Thread("handle", item, FALSE)]
    /\ UNCHANGED <<nodes, is_alive, reactive_input_values,
                   passive_input_values, value, isStarted, worker_queue,
                   worker_threads, mpc, gi, si, triggers, starts,
                   executes, calls, emitted, port_log, hi_raised,
                   stop_log>>

\* AsyncWorker._result_handler, line 255: _handle_result(result); nothing
\* catches an exception of it, which ends the thread.
ResultHandle(n) ==
    /\ IsAsync(n)
    /\ result_thread[n].pc = "handle"
    /\ LET r == HandleResult(Heap, n, result_thread[n].item.result)
       IN /\ Store(r.h)
          /\ result_thread' =
                 [result_thread EXCEPT ![n] =
                     IF r.exc THEN Thread("crashed", @.item, TRUE)
                     ELSE Thread("task_done", @.item, FALSE)]
    /\ UNCHANGED <<nodes, is_alive, isStarted, result_queue, worker_threads,
                   mpc, gi, si, triggers, starts, stop_log>>

\* The result step of line 255 taken apart, for a node whose output port
\* has one observer, an ArgInputPort: the result thread sets the value
\* (line 138), calls the observer (lines 139, 67, 91) and stores the data
\* in the observing node's reactive vector (line 386).  It is then inside
\* the observing node's handle_input.
ResultEnter(n) ==
    /\ IsAsync(n)
    /\ result_thread[n].pc = "handle"
    /\ Len(nodes[n].observers) = 1
    /\ LET data == result_thread[n].item.result
           o == nodes[n].observers[1]
       IN /\ o.kwarg = NoKwarg
          /\ nodes[o.node].reactive_input_ports[o.idx + 1].kind = "arg"
          /\ value' = [value EXCEPT ![n] = data]
          /\ port_log' =
                 [port_log EXCEPT ![n] =
                     Append(@, [obs |-> 1, data |-> data,
                                k |-> Len(emitted[n]) + 1])]
          /\ reactive_input_values' =
                 [reactive_input_values EXCEPT ![o.node][o.idx + 1] = data]
    /\ result_thread' = [result_thread EXCEPT ![n].pc = "in_observer"]
    /\ UNCHANGED <<nodes, is_alive, passive_input_values, isStarted,
                   worker_queue, result_queue, worker_threads, mpc, gi, si,
                   triggers, starts, executes, calls, emitted, hi_raised,
                   stop_log>>

\* The rest of the result step: the observing node's worker.execute with
\* the reactive vector as it is now (lines 388-392), and the return to
\* _result_handler.
ResultLeave(n) ==
    /\ IsAsync(n)
    /\ result_thread[n].pc = "in_observer"
    /\ LET data == result_thread[n].item.result
           r == Execute(Heap, nodes[n].observers[1].node)
       IN Store([r.h EXCEPT !.emitted[n] =
                     Append(@, [data |-> data, ok |-> TRUE])])
    /\ result_thread' = [result_thread EXCEPT ![n].pc = "task_done"]
    /\ UNCHANGED <<nodes, is_alive, isStarted, result_queue, worker_threads,
                   mpc, gi, si, triggers, starts, stop_log>>

\* AsyncWorker._result_handler, line 256: result_queue.task_done().
ResultTaskDone(n) ==
    /\ IsAsync(n)
    /\ result_thread[n].pc = "task_done"
    /\ result_queue' = [result_queue EXCEPT ![n] = TaskDone(@)]
    /\ result_thread' =
           [result_thread EXCEPT ![n] = Thread("get", NoItem, FALSE)]
    /\ UNCHANGED <<nodes, is_alive, reactive_input_values,
                   passive_input_values, value, isStarted, worker_queue,
                   worker_threads, mpc, gi, si, triggers, starts,
                   executes, calls, emitted, port_log, hi_raised,
                   stop_log>>

\* Faulty variant of Joined: join() returns as soon as the queue is empty.
JoinedWhenEmpty(q) == q.items = <<>>

\* Queue.join() returns: every item put has been marked done.
Joined(q) == q.unfinished = 0

\* AsyncWorker.join called by the main thread, line 223:
\* worker_queue.join() begins.
JoinBegin(n) ==
    /\ mpc = "idle"
    /\ IsAsync(n)
    /\ worker_queue[n].made
    /\ mpc' = "join_worker_queue"
    /\ gi' = n
    /\ UNCHANGED <<nodes, is_alive, reactive_input_values,
                   passive_input_values, value, isStarted, worker_queue,
                   result_queue, worker_threads, result_thread, si, triggers,
                   starts, executes, calls, emitted, port_log,
                   hi_raised, stop_log>>

\* AsyncWorker.join, lines 223-224: worker_queue.join() returns and
\* result_queue.join() begins.
JoinWorkerQueue ==
    /\ mpc = "join_worker_queue"
    /\ Joined(worker_queue[gi])
    /\ mpc' = "join_result_queue"
    /\ UNCHANGED <<nodes, is_alive, reactive_input_values,
                   passive_input_values, value, isStarted, worker_queue,
                   result_queue, worker_threads, result_thread, gi, si,
                   triggers, starts, executes, calls, emitted, port_log,
                   hi_raised, stop_log>>

\* AsyncWorker.join, line 224: result_queue.join() returns, and so join().
JoinResultQueue ==
    /\ mpc = "join_result_queue"
    /\ Joined(result_queue[gi])
    /\ mpc' = "idle"
    /\ UNCHANGED <<nodes, is_alive, reactive_input_values,
                   passive_input_values, value, isStarted, worker_queue,
                   result_queue, worker_threads, result_thread, gi, si,
                   triggers, starts, executes, calls, emitted, port_log,
                   hi_raised, stop_log>>

StopEvent(n, ev) == [node |-> n, ev |-> ev]

\* Faulty variant of StopsFirst: one loop that stops every node in list order.
StopsFirstAnyWorker(n) == IsAsync(n) \/ IsSync(n)

\* Faulty variant of StopsFirst: the first loop stops the SyncWorker nodes.
StopsFirstSyncWorkers(n) == IsSync(n)

\* Graph.stop, line 51: the nodes its first loop stops.
StopsFirst(n) == IsAsync(n)

\* Graph.stop called by the main thread, lines 48-50: is_alive = False and
\* the first loop begins.
GraphStop ==
    /\ mpc = "idle"
    /\ is_alive
    /\ is_alive' = FALSE
    /\ mpc' = "stop_async"
    /\ gi' = 1
    /\ stop_log' = <<>>
    /\ UNCHANGED <<nodes, reactive_input_values, passive_input_values, value,
                   isStarted, worker_queue, result_queue, worker_threads,
                   result_thread, si, triggers, starts, executes, calls,
                   emitted, port_log, hi_raised>>

\* Graph.stop, lines 50-52: the first loop passes a node it does not stop.
StopFirstSkip ==
    /\ mpc = "stop_async"
    /\ gi <= Len(nodes)
    /\ ~StopsFirst(gi)
    /\ gi' = gi + 1
    /\ UNCHANGED <<nodes, is_alive, reactive_input_values,
                   passive_input_values, value, isStarted, worker_queue,
                   result_queue, worker_threads, result_thread, mpc, si,
                   triggers, starts, executes, calls, emitted, port_log,
                   hi_raised, stop_log>>

\* Faulty variant of SyncWorkerStop: isStarted is left as it is.
SyncWorkerStopKeepsStarted(n) == isStarted

\* SyncWorker.stop of node n: the target is dropped, isStarted is False.
SyncWorkerStop(n) == [isStarted EXCEPT ![n] = FALSE]

\* Graph.stop, line 52: node.stop() is called on a node of the first loop.
\* A SyncWorker stops at once; AsyncWorker.stop begins its loop of puts.
StopFirstCall ==
    /\ mpc = "stop_async"
    /\ gi <= Len(nodes)
    /\ StopsFirst(gi)
    /\ IF IsAsync(gi)
       THEN /\ mpc' = "put_pills"
            /\ si' = 1
            /\ stop_log' = Append(stop_log, StopEvent(gi, "call"))
            /\ UNCHANGED <<gi, isStarted>>
       ELSE /\ isStarted' = SyncWorkerStop(gi)
            /\ stop_log' = stop_log \o <<StopEvent(gi, "call"),
                                         StopEvent(gi, "return")>>
            /\ gi' = gi + 1
            /\ UNCHANGED <<mpc, si>>
    /\ UNCHANGED <<nodes, is_alive, reactive_input_values,
                   passive_input_values, value, worker_queue, result_queue,
                   worker_threads, result_thread, triggers, starts,
                   executes, calls, emitted, port_log,
                   hi_raised>>

\* Faulty variant of StopPutPill: one poison pill, however many execution
\* threads there are.
StopPutOnePill ==
    /\ mpc = "put_pills"
    /\ worker_queue' = [worker_queue EXCEPT ![gi] = Put(@, PoisonPill)]
    /\ si' = 1
    /\ mpc' = "join_workers"
    /\ UNCHANGED <<nodes, is_alive, reactive_input_values,
                   passive_input_values, value, isStarted, result_queue,
                   worker_threads, result_thread, gi, triggers, starts,
                   executes, calls, emitted, port_log, hi_raised,
                   stop_log>>

\* AsyncWorker.stop, lines 213-214: one poison pill per execution thread.
StopPutPill ==
    /\ mpc = "put_pills"
    /\ worker_queue' = [worker_queue EXCEPT ![gi] = Put(@, PoisonPill)]
    /\ IF si < Len(worker_threads[gi])
       THEN /\ si' = si + 1
            /\ mpc' = mpc
       ELSE /\ si' = 1
            /\ mpc' = "join_workers"
    /\ UNCHANGED <<nodes, is_alive, reactive_input_values,
                   passive_input_values, value, isStarted, result_queue,
                   worker_threads, result_thread, gi, triggers, starts,
                   executes, calls, emitted, port_log, hi_raised,
                   stop_log>>

\* AsyncWorker.stop, lines 216-217: thread.join() returns for the next
\* execution thread.
StopJoinWorker ==
    /\ mpc = "join_workers"
    /\ worker_threads[gi][si].pc = "dead"
    /\ IF si < Len(worker_threads[gi])
       THEN /\ si' = si + 1
            /\ mpc' = mpc
       ELSE /\ si' = 0
            /\ mpc' = "put_result_pill"
    /\ UNCHANGED <<nodes, is_alive, reactive_input_values,
                   passive_input_values, value, isStarted, worker_queue,
                   result_queue, worker_threads, result_thread, gi, triggers,
                   starts, executes, calls, emitted, port_log,
                   hi_raised, stop_log>>

\* AsyncWorker.stop, line 219: the poison pill for the result thread.
StopPutResultPill ==
    /\ mpc = "put_result_pill"
    /\ result_queue' = [result_queue EXCEPT ![gi] = Put(@, PoisonPill)]
    /\ mpc' = "join_result"
    /\ UNCHANGED <<nodes, is_alive, reactive_input_values,
                   passive_input_values, value, isStarted, worker_queue,
                   worker_threads, result_thread, gi, si, triggers, starts,
                   executes, calls, emitted, port_log,
                   hi_raised, stop_log>>

\* AsyncWorker.stop, line 220: result_thread.join() returns (the thread got
\* its pill, or an exception had ended it), and so node.stop().
StopJoinResult ==
    /\ mpc = "join_result"
    /\ result_thread[gi].pc \in {"dead", "crashed"}
    /\ stop_log' = Append(stop_log, StopEvent(gi, "return"))
    /\ mpc' = "stop_async"
    /\ gi' = gi + 1
    /\ UNCHANGED <<nodes, is_alive, reactive_input_values,
                   passive_input_values, value, isStarted, worker_queue,
                   result_queue, worker_threads, result_thread, si, triggers,
                   starts, executes, calls, emitted, port_log,
                   hi_raised>>

\* Graph.stop, line 54: the first loop is over and the second begins.
StopFirstDone ==
    /\ mpc = "stop_async"
    /\ gi > Len(nodes)
    /\ mpc' = "stop_sync"
    /\ gi' = 1
    /\ UNCHANGED <<nodes, is_alive, reactive_input_values,
                   passive_input_values, value, isStarted, worker_queue,
                   result_queue, worker_threads, result_thread, si, triggers,
                   starts, executes, calls, emitted, port_log,
                   hi_raised, stop_log>>

\* Graph.stop, lines 54-56: the second loop passes a node that is no
\* SyncWorker node.
StopSyncSkip ==
    /\ mpc = "stop_sync"
    /\ gi <= Len(nodes)
    /\ ~IsSync(gi)
    /\ gi' = gi + 1
    /\ UNCHANGED <<nodes, is_alive, reactive_input_values,
                   passive_input_values, value, isStarted, worker_queue,
                   result_queue, worker_threads, result_thread, mpc, si,
                   triggers, starts, executes, calls, emitted, port_log,
                   hi_raised, stop_log>>

\* Graph.stop, line 56, and SyncWorker.stop: the target is dropped and
\* isStarted is False.
StopSyncCall ==
    /\ mpc = "stop_sync"
    /\ gi <= Len(nodes)
    /\ IsSync(gi)
    /\ isStarted' = SyncWorkerStop(gi)
    /\ stop_log' = stop_log \o <<StopEvent(gi, "call"),
                                 StopEvent(gi, "return")>>
    /\ gi' = gi + 1
    /\ UNCHANGED <<nodes, is_alive, reactive_input_values,
                   passive_input_values, value, worker_queue, result_queue,
                   worker_threads, result_thread, mpc, si, triggers, starts,
                   executes, calls, emitted, port_log,
                   hi_raised>>

\* Graph.stop returns.
StopDone ==
    /\ mpc = "stop_sync"
    /\ gi > Len(nodes)
    /\ mpc' = "idle"
    /\ gi' = 0
    /\ UNCHANGED <<nodes, is_alive, reactive_input_values,
                   passive_input_values, value, isStarted, worker_queue,
                   result_queue, worker_threads, result_thread, si, triggers,
                   starts, executes, calls, emitted, port_log,
                   hi_raised, stop_log>>

\* ---------------------------------------------------------- specifications
Trigger ==
    \E n \in Ids : \E data \in Payloads :
        \E port_idx \in 0..(Len(nodes[n].reactive_input_ports) - 1) :
            NodeNotify(n, data, port_idx)

BatchTrigger ==
    \E n \in Ids : \E data \in BatchPayloads : NodeNotify(n, data, 0)

KwargTrigger ==
    \E n \in Ids : \E kwarg \in Kwargs : \E data \in Payloads :
        KwargNotify(n, kwarg, data)

AsyncStop ==
    \/ StopFirstCall
    \/ StopPutPill
    \/ StopJoinWorker
    \/ StopPutResultPill
    \/ StopJoinResult
    \/ StopSyncSkip

AsyncJoin ==
    \/ \E n \in Ids : JoinBegin(n)
    \/ JoinWorkerQueue
    \/ JoinResultQueue

Threads ==
    \/ \E n \in Ids : \E w \in 1..Len(worker_threads[n]) : WorkerGet(n, w)
    \/ \E n \in Ids : \E w \in 1..Len(worker_threads[n]) : WorkerRun(n, w)
    \/ \E n \in Ids : \E w \in 1..Len(worker_threads[n]) :
           WorkerTaskDone(n, w)
    \/ \E n \in Ids : ResultGet(n)
    \/ \E n \in Ids : ResultHandle(n)
    \/ \E n \in Ids : ResultTaskDone(n)

\* What the main thread does to a graph of SyncWorker nodes.
NextSync ==
    \/ GraphStart
    \/ Trigger
    \/ KwargTrigger
    \/ GraphStop
    \/ StopFirstSkip
    \/ StopFirstDone
    \/ StopSyncCall
    \/ StopDone

\* The main thread starts a graph of batch nodes and feeds it, before and
\* after the start.
NextBatch ==
    \/ GraphStart
    \/ BatchTrigger

\* The main thread and the threads of a graph with AsyncWorker nodes whose
\* targets take no keyword.
Next ==
    \/ GraphStart
    \/ Trigger
    \/ GraphStop
    \/ StopFirstSkip
    \/ StopFirstDone
    \/ StopSyncCall
    \/ StopDone
    \/ AsyncStop
    \/ AsyncJoin
    \/ Threads

\* An asynchronous node feeding a synchronous one through a mapping port.
Init == InitGraph(MappingGraph)
Spec == Init /\ [][Next]_vars

\* Scheduling: a thread that can take its next step eventually takes it.
\* What execution thread w of node n can do.
WorkerStep(n, w) ==
    /\ w \in DOMAIN worker_threads[n]
    /\ (WorkerGet(n, w) \/ WorkerRun(n, w) \/ WorkerTaskDone(n, w))
\* What the result thread of node n can do.
ResultStep(n) == ResultGet(n) \/ ResultHandle(n) \/ ResultTaskDone(n)
\* The main thread inside Graph.stop, and inside AsyncWorker.join.
MainStop ==
    AsyncStop \/ StopFirstSkip \/ StopFirstDone \/ StopSyncCall \/ StopDone
MainJoin == JoinWorkerQueue \/ JoinResultQueue
NodeIds == 1..Len(MappingGraph)
\* ENABLED <<ResultStep(n)>>_vars: the result thread holds an item or can
\* get one.
ResultReady(n) ==
    /\ IsAsync(n)
    /\ \/ result_thread[n].pc \in {"handle", "task_done"}
       \/ result_thread[n].pc = "get" /\ result_queue[n].items # <<>>
\* WF_vars(ResultStep(n)), with ENABLED written as ResultReady(n).
ResultFair(n) == []<>(~ResultReady(n)) \/ []<><<ResultStep(n)>>_vars
Fairness ==
    /\ WF_vars(MainStop)
    /\ WF_vars(MainJoin)
    /\ \A n \in NodeIds : ResultFair(n)
    /\ \A n \in NodeIds : \A w \in 1..NumThreads : WF_vars(WorkerStep(n, w))
SpecFair == Init /\ [][Next]_vars /\ Fairness

\* Synchronous and asynchronous nodes alternating in the list.
InitMixed == InitGraph(MixedGraph)
SpecGraph == InitMixed /\ [][Next]_vars

\* Synchronous nodes only.
InitSync == InitGraph(SyncGraph)
SpecSync == InitSync /\ [][NextSync]_vars

\* Batch nodes only.
InitBatch == InitGraph(BatchGraph)
SpecBatch == InitBatch /\ [][NextBatch]_vars

\* One add2 node built without explicit ports, with any of the default
\* lists.
InitDefaults ==
    \E defaults \in DefaultsChoices :
        InitGraph(<<DefaultsNode("add2", defaults)>>)
SpecDefaults == InitDefaults /\ [][NextSync]_vars

\* The main thread and the threads of a graph whose result steps are taken
\* apart.
NextFanIn ==
    \/ GraphStart
    \/ Trigger
    \/ GraphStop
    \/ MainStop
    \/ \E n \in Ids : \E w \in 1..Len(worker_threads[n]) : WorkerStep(n, w)
    \/ \E n \in Ids : ResultGet(n)
    \/ \E n \in Ids : ResultEnter(n)
    \/ \E n \in Ids : ResultLeave(n)
    \/ \E n \in Ids : ResultTaskDone(n)

\* Two AsyncWorker nodes feeding one SyncWorker node.
InitFanIn == InitGraph(FanInGraph)
SpecFanIn == InitFanIn /\ [][NextFanIn]_vars

\* A pool of execution threads whose results no observer refuses.
NextPool ==
    \/ GraphStart
    \/ Trigger
    \/ GraphStop
    \/ MainStop
    \/ Threads
InitPool == InitGraph(PoolGraph)
SpecPool == InitPool /\ [][NextPool]_vars

\* ----------------------------------------------------------------- claims
\* The items of a queue that are no poison pill.
Pending(q) == {i \in 1..Len(q.items) : ~q.items[i].pill}
NoRaise(n) == \A c \in 1..Len(calls[n]) : calls[n][c].ok
\* Graph.stop is still running and the last thing it did was to return from
\* node n's stop().
JustStopped(n) ==
    /\ mpc # "idle"
    /\ stop_log # <<>>
    /\ stop_log[Len(stop_log)] = StopEvent(n, "return")

\* C1: when AsyncWorker.stop() returns and no invocation has raised, every
\* submitted item has been invoked and every result has gone through the
\* result step: nothing is left on the work queue or on the result queue,
\* and the output port was notified once per invocation.
C1_DrainBeforeStopReturns ==
    \A n \in Ids :
        (IsAsync(n) /\ JustStopped(n) /\ NoRaise(n)) =>
            /\ Pending(worker_queue[n]) = {}
            /\ Pending(result_queue[n]) = {}
            /\ Len(emitted[n]) = Len(calls[n])

RECURSIVE StopsOf(_, _)
\* node.stop() called and returned, in list order, for the nodes from
\* position n on whose worker is of class wc.
StopsOf(wc, n) ==
    IF n > Len(nodes) THEN <<>>
    ELSE (IF nodes[n].worker = wc
          THEN <<StopEvent(n, "call"), StopEvent(n, "return")>>
          ELSE <<>>) \o StopsOf(wc, n + 1)
IsPrefix(s, t) == Len(s) <= Len(t) /\ s = SubSeq(t, 1, Len(s))
InGraphStop == mpc \notin {"idle", "join_worker_queue", "join_result_queue"}
Terminated(n) ==
    /\ \A w \in 1..Len(worker_threads[n]) : worker_threads[n][w].pc = "dead"
    /\ result_thread[n].pc \in {"dead", "crashed"}

\* C2: while Graph.stop runs the graph is not alive; it calls node.stop()
\* on the AsyncWorker nodes in list order, each call returning (all threads
\* of the node terminated) before the next begins, and only then on the
\* SyncWorker nodes in list order.
C2_StopOrder ==
    /\ InGraphStop => ~is_alive
    /\ IsPrefix(stop_log, StopsOf("AsyncWorker", 1) \o StopsOf("SyncWorker", 1))
    /\ InGraphStop =>
           \A k \in 1..Len(stop_log) :
               (stop_log[k].ev = "return" /\ IsAsync(stop_log[k].node))
                   => Terminated(stop_log[k].node)
    /\ (~InGraphStop /\ stop_log # <<>>) =>
           stop_log = StopsOf("AsyncWorker", 1) \o StopsOf("SyncWorker", 1)

\* Graph.stop has returned for a graph whose list has a SyncWorker node
\* before an AsyncWorker node that had results to drain.
C2_Witness ==
    /\ ~InGraphStop
    /\ stop_log # <<>>
    /\ \E a, b \in Ids : a < b /\ IsSync(a) /\ IsAsync(b) /\ emitted[b] # <<>>
    /\ Cardinality({n \in Ids : IsAsync(n)}) > 1

\* The entries a step appends to a log.
New(log) == SubSeq(log', Len(log) + 1, Len(log'))
CallResult(n, c) == TargetResult(nodes[n].target_func, c.args, c.kwargs)

\* C3: a step in which every invocation of a SyncWorker node's target
\* raises leaves the node's value, its output port and its observers alone
\* and raises nothing out of handle_input; a step whose last invocation
\* of the target returns, whatever failed before, sets the value to the
\* result and notifies the output port once per returned invocation.
C3_SyncFaultIsolation ==
    [][\A n \in Ids :
          IsSync(n) =>
              LET new == New(calls[n])
                  oks == {i \in 1..Len(new) : new[i].ok}
                  out == New(emitted[n])
              IN /\ Len(calls'[n]) >= Len(calls[n])
                 /\ Len(out) = Cardinality(oks)
                 /\ n \notin hi_raised'
                 /\ oks = {} =>
                        /\ value'[n] = value[n]
                        /\ emitted'[n] = emitted[n]
                        /\ port_log'[n] = port_log[n]
                 /\ (new # <<>> /\ new[Len(new)].ok) =>
                        /\ value'[n] = CallResult(n, new[Len(new)])
                        /\ out[Len(out)].data = value'[n]]_vars

\* A SyncWorker node whose target raised and later returned: the value is
\* the later result and it is the last one notified.
C3_Witness ==
    \E n \in Ids :
        /\ IsSync(n)
        /\ \E i, j \in 1..Len(calls[n]) :
               /\ i < j
               /\ j = Len(calls[n])
               /\ ~calls[n][i].ok
               /\ calls[n][j].ok
               /\ value[n] = CallResult(n, calls[n][j])
        /\ emitted[n] # <<>>
        /\ emitted[n][Len(emitted[n])].data = value[n]

\* C4: when an execution thread's invocation raises, the result queue, the
\* node's value and its output port are left alone and the thread goes
\* back to worker_queue.get(); when it returns, the result is put on the
\* result queue, also by a thread whose earlier invocation raised.
C4_AsyncFaultIsolation ==
    [][\A n \in Ids : \A w \in 1..Len(worker_threads[n]) :
          (worker_threads[n][w].pc = "run"
              /\ worker_threads'[n][w] # worker_threads[n][w]) =>
              LET item == worker_threads[n][w].item
                  tf == nodes[n].target_func
              IN IF TargetRaises(tf, item.args, item.kwargs)
                 THEN /\ result_queue'[n] = result_queue[n]
                      /\ value' = value
                      /\ emitted' = emitted
                      /\ worker_threads'[n][w].pc = "get"
                 ELSE /\ result_queue'[n] =
                             Put(result_queue[n],
                                 Result(TargetResult(tf, item.args,
                                                     item.kwargs)))
                      /\ worker_threads'[n][w].pc = "task_done"]_vars

\* An execution thread that had an invocation raise and has since put the
\* result of a later item on the result queue.
C4_Witness ==
    \E n \in Ids : \E w \in 1..Len(worker_threads[n]) :
        /\ worker_threads[n][w].failed
        /\ worker_threads[n][w].pc = "task_done"
        /\ Pending(result_queue[n]) # {}

\* C5: a step in which the main thread notifies the passive port kwarg of
\* a node overwrites the cached passive value of that key of that node and
\* nothing else: the reactive vectors, the other passive values, the
\* values, the worker.execute calls, the target invocations and the
\* observer notifications are unchanged.
C5_KwargUpdateFrame ==
    [][\A n \in Ids : \A kwarg \in Kwargs : \A data \in Payloads :
          KwargNotify(n, kwarg, data) =>
              /\ passive_input_values'[n][kwarg] = data
              /\ \A m \in Ids : \A kw \in Kwargs :
                     (m # n \/ kw # kwarg) =>
                         passive_input_values'[m][kw] =
                             passive_input_values[m][kw]
              /\ UNCHANGED <<reactive_input_values, value, executes, calls,
                             emitted, port_log, hi_raised, worker_queue>>]_vars

\* A started node whose keyword b was overwritten while c keeps its
\* default, with no worker.execute call and no value.
C5_Witness ==
    \E n \in Ids :
        /\ is_alive
        /\ passive_input_values[n].b = ListV(<<1, 2, 3>>)
        /\ passive_input_values[n].c = KwDefaults(nodes[n].target_func).c
        /\ passive_input_values[n].c.k = "int"
        /\ executes[n] = <<>>
        /\ value[n] = NoneV

\* The reactive port port_idx of node n.
PortOf(n, port_idx) == nodes[n].reactive_input_ports[port_idx + 1]
\* The main thread calls n.notify(data, port_idx) on an ArgInputPort.
ArgNotify(n, data, port_idx) ==
    /\ data # NoneV
    /\ PortOf(n, port_idx).kind = "arg"
    /\ NodeNotify(n, data, port_idx)

\* C6: a step in which handle_input(data, idx=port_idx) runs for node n
\* overwrites position port_idx of the cached reactive vector, leaves the
\* other positions and the passive map alone, and calls worker.execute
\* exactly once, with the whole new reactive vector and the whole current
\* passive map, whatever the other positions hold; a started SyncWorker
\* invokes the target once with these.
C6_LastValueWins ==
    [][\A n \in Ids : \A data \in Payloads :
          \A port_idx \in 0..(Len(nodes[n].reactive_input_ports) - 1) :
              ArgNotify(n, data, port_idx) =>
                  LET riv == [reactive_input_values[n]
                                  EXCEPT ![port_idx + 1] = data]
                      piv == passive_input_values[n]
                  IN /\ reactive_input_values'[n] = riv
                     /\ passive_input_values'[n] = piv
                     /\ executes'[n] =
                            Append(executes[n], Executed(riv, piv, FALSE))
                     /\ isStarted[n] =>
                            /\ Len(calls'[n]) = Len(calls[n]) + 1
                            /\ calls'[n][Len(calls'[n])].args = riv
                            /\ calls'[n][Len(calls'[n])].kwargs = piv]_vars

\* add2 with cached [a0, a1] and a keyword b set by an earlier passive
\* update: the last trigger, on position 1, invoked add2(a0, x, b=b) with
\* a0 # x, and the value is a0 + x + b.
C6_Witness ==
    \E n \in Ids :
        /\ Len(reactive_input_values[n]) = 2
        /\ calls[n] # <<>>
        /\ LET c == calls[n][Len(calls[n])]
           IN /\ c.ok
              /\ c.args = reactive_input_values[n]
              /\ c.args[1].k = "int"
              /\ c.args[1] # c.args[2]
              /\ c.kwargs.b # KwDefaults(nodes[n].target_func).b
              /\ c.kwargs.b = passive_input_values[n].b
              /\ value[n] = IntV(c.args[1].n + c.args[2].n + c.kwargs.b.n)
        /\ Len(executes[n]) = 2
        /\ executes[n][1].kwargs.b = KwDefaults(nodes[n].target_func).b

\* The observer notifications of output port n made by its k-th notify.
NotifiedBy(n, k) == SelectSeq(port_log[n], LAMBDA e : e.k = k)

\* C7: every OutputPort.notify(d) that returned has called notify(d) on
\* every registered observer exactly once, in registration order; one that
\* raised has called a prefix of them, in that order; the calls of one
\* notify are over before the next notify begins, and none is left to be
\* made later.
C7_FanOutOrder ==
    \A n \in Ids :
        /\ \A k \in 1..Len(emitted[n]) :
               LET log == NotifiedBy(n, k)
               IN /\ Len(log) <= Len(nodes[n].observers)
                  /\ \A j \in 1..Len(log) :
                         /\ log[j].obs = j
                         /\ log[j].data = emitted[n][k].data
                  /\ emitted[n][k].ok => Len(log) = Len(nodes[n].observers)
        /\ \A i \in 1..Len(port_log[n]) :
               /\ port_log[n][i].k \in 1..Len(emitted[n])
               /\ i > 1 => port_log[n][i - 1].k <= port_log[n][i].k

\* An output port with three observers has notified all three, in order.
C7_Witness ==
    \E n \in Ids :
        /\ Len(nodes[n].observers) = 3
        /\ emitted[n] # <<>>
        /\ emitted[n][1].ok
        /\ [j \in 1..3 |-> port_log[n][j].obs] = <<1, 2, 3>>

RECURSIVE Flatten(_)
\* The concatenation of a sequence of sequences.
Flatten(seqs) == IF seqs = <<>> THEN <<>> ELSE Head(seqs) \o Flatten(Tail(seqs))

\* C8: a step in which the main thread notifies a BatchArgInputPort of
\* batch_size b with a list of length L calls handle_input once per chunk:
\* ceil(L / b) chunks, each a list of 1..b elements, all but the last of
\* exactly b, whose concatenation in order is the payload; a started worker
\* invokes the target once per chunk.
C8_BatchChunks ==
    [][\A n \in Ids : \A data \in BatchPayloads :
          (PortOf(n, 0).kind = "batch" /\ NodeNotify(n, data, 0)) =>
              LET b == PortOf(n, 0).batch_size
                  new == New(executes[n])
                  chunk(i) == new[i].args[1]
              IN /\ Len(new) * b >= Len(data.l)
                 /\ (Len(new) - 1) * b < Len(data.l)
                 /\ \A i \in 1..Len(new) :
                        /\ chunk(i).k = "list"
                        /\ Len(chunk(i).l) \in 1..b
                        /\ i < Len(new) => Len(chunk(i).l) = b
                 /\ Flatten([i \in 1..Len(new) |-> chunk(i).l]) = data.l
                 /\ isStarted[n] => Len(New(calls[n])) = Len(new)]_vars

\* batch_size 2 fed [1, 2, 3, 4, 5]: three invocations, with [1, 2],
\* [3, 4] and [5].
C8_Witness ==
    \E n \in Ids :
        /\ PortOf(n, 0).kind = "batch"
        /\ PortOf(n, 0).batch_size = 2
        /\ [i \in 1..Len(calls[n]) |-> calls[n][i].args] =
               << <<ListV(<<1, 2>>)>>, <<ListV(<<3, 4>>)>>,
                  <<ListV(<<5>>)>> >>
        /\ value[n] = ListV(<<5, 5>>)

\* C9: outside Graph.start .. Graph.stop (never started, or stopped again)
\* a step of the main thread invokes no target, changes no value, notifies
\* no output port and no observer and raises nothing, although
\* worker.execute is called; between Graph.start and Graph.stop, also after
\* a restart, a trigger on an ArgInputPort invokes the target.
C9_UnstartedSyncWorker ==
    [][/\ (mpc = "idle" /\ ~is_alive) =>
              UNCHANGED <<calls, value, emitted, port_log, hi_raised>>
       /\ \A n \in Ids : \A data \in Payloads :
              \A port_idx \in 0..(Len(nodes[n].reactive_input_ports) - 1) :
                  ArgNotify(n, data, port_idx) =>
                      /\ Len(executes'[n]) = Len(executes[n]) + 1
                      /\ Len(calls'[n]) =
                             Len(calls[n]) + (IF is_alive THEN 1 ELSE 0)]_vars

\* A node that was started, invoked its target, was stopped and then had
\* worker.execute called again: no second invocation, the value is still
\* the first result.
C9_Witness ==
    \E n \in Ids :
        /\ mpc = "idle"
        /\ ~is_alive
        /\ ~isStarted[n]
        /\ Len(executes[n]) = 2
        /\ Len(calls[n]) = 1
        /\ calls[n][1].ok
        /\ calls[n][1].args = executes[n][1].args
        /\ executes[n][2].args # executes[n][1].args
        /\ value[n] = CallResult(n, calls[n][1])

\* The worker.execute calls of node n that put an item on its work queue.
Submitted(n) == SelectSeq(executes[n], LAMBDA e : ~e.raised)
\* No work item and no result of node n is waiting or being processed.
Quiescent(n) ==
    /\ Pending(worker_queue[n]) = {}
    /\ \A w \in 1..Len(worker_threads[n]) :
           worker_threads[n][w].pc \notin {"run", "task_done"}
    /\ Pending(result_queue[n]) = {}
    /\ result_thread[n].pc \notin {"handle", "task_done", "crashed"}

\* C10: the step in which AsyncWorker.join() returns finds no work item
\* and no result of the node waiting or in progress; on a worker started
\* once with no raising invocation, every submitted item has been invoked
\* and every result set as the value and notified.
C10_JoinSafety ==
    [][(mpc = "join_result_queue" /\ mpc' = "idle") =>
          /\ Quiescent(gi)
          /\ (is_alive /\ starts = 1 /\ NoRaise(gi)) =>
                 /\ Len(calls[gi]) = Len(Submitted(gi))
                 /\ Len(emitted[gi]) = Len(calls[gi])
                 /\ \A k \in 1..Len(emitted[gi]) : emitted[gi][k].ok
                 /\ calls[gi] # <<>> =>
                        \E c \in 1..Len(calls[gi]) :
                            value[gi] = CallResult(gi, calls[gi][c])]_vars

\* join() of a started worker is returning after two submitted items were
\* invoked and their results set and notified.
C10_Witness ==
    /\ mpc = "join_result_queue"
    /\ Joined(result_queue[gi])
    /\ is_alive
    /\ starts = 1
    /\ Len(Submitted(gi)) = 2
    /\ Len(calls[gi]) = 2
    /\ Len(emitted[gi]) = 2
    /\ value[gi] # NoneV

\* The main thread is inside node n's AsyncWorker.stop().
InAsyncStop(n) ==
    /\ gi = n
    /\ mpc \in {"put_pills", "join_workers", "put_result_pill", "join_result"}

\* C11: under fair scheduling every AsyncWorker.stop() that was called
\* returns, with the node's execution threads and its result thread
\* ended, whatever was on the queues when it was called.
C11_StopTerminates ==
    \A n \in NodeIds : InAsyncStop(n) ~> (JustStopped(n) /\ Terminated(n))

\* stop() has returned for a node that made two invocations, one of which
\* raised.
C11_Witness ==
    \E n \in Ids :
        /\ IsAsync(n)
        /\ JustStopped(n)
        /\ Terminated(n)
        /\ Len(calls[n]) = 2
        /\ ~NoRaise(n)

\* C12: for every node, the length of the cached reactive vector, the
\* number of reactive ports and the arity of the work target are equal, in
\* every state from construction on.
C12_ArityInvariant ==
    \A n \in Ids :
        /\ Len(nodes[n].reactive_input_ports) = Arity(nodes[n].target_func)
        /\ Len(reactive_input_values[n]) = Len(nodes[n].reactive_input_ports)

\* The result queue of node n holds a poison pill.
ResultPillPut(n) ==
    \E i \in 1..Len(result_queue[n].items) : result_queue[n].items[i].pill
\* The pill of the result queue is put only once every execution thread
\* has ended, and no result is behind it on the queue.
PillAfterWorkers(n) ==
    /\ ResultPillPut(n) =>
           \A w \in 1..Len(worker_threads[n]) :
               worker_threads[n][w].pc = "dead"
    /\ \A i, j \in 1..Len(result_queue[n].items) :
           (i < j /\ result_queue[n].items[i].pill)
               => result_queue[n].items[j].pill
\* The result thread has not ended while a result is unprocessed.
ResultsDrained(n) ==
    result_thread[n].pc \in {"dead", "crashed"} =>
        Pending(result_queue[n]) = {}

\* C13: for every AsyncWorker node, in every state: the pill of the result
\* queue is put only after all execution threads have ended, no result is
\* on the queue behind it, and the result thread does not end while a
\* result is still to be processed.
C13_PillOrdering ==
    \A n \in Ids : IsAsync(n) => (PillAfterWorkers(n) /\ ResultsDrained(n))

\* The result thread of node n delivers the result it holds.
Delivers(n) ==
    /\ IsAsync(n)
    /\ result_thread[n].pc = "handle"
    /\ result_thread'[n].pc # "handle"

\* C14: whenever the result thread of an AsyncWorker node delivers a
\* result, every SyncWorker node observing its output port is started, and
\* one observing through an ArgInputPort invokes its target with it; no
\* external trigger arrives while Graph.stop runs.
C14_ConsumerStillStarted ==
    [][/\ InGraphStop => triggers' = triggers
       /\ \A n \in Ids :
              Delivers(n) =>
                  \A j \in 1..Len(nodes[n].observers) :
                      LET o == nodes[n].observers[j]
                      IN IsSync(o.node) =>
                             /\ isStarted[o.node]
                             /\ (o.kwarg = NoKwarg
                                     /\ PortOf(o.node, o.idx).kind = "arg") =>
                                    Len(calls'[o.node]) =
                                        Len(calls[o.node]) + 1]_vars

\* Graph.stop is inside stop() of an AsyncWorker node whose result thread
\* holds a result to deliver to a SyncWorker node that is still started.
C14_Witness ==
    \E n \in Ids :
        /\ InAsyncStop(n)
        /\ IsAsync(n)
        /\ result_thread[n].pc = "handle"
        /\ \E j \in 1..Len(nodes[n].observers) :
               /\ IsSync(nodes[n].observers[j].node)
               /\ isStarted[nodes[n].observers[j].node]

\* The result threads that are inside handle_input of node m: they have
\* written m's reactive vector and are about to run m's worker.
InsideHandleInput(m) ==
    {n \in Ids : /\ IsAsync(n)
                 /\ result_thread[n].pc = "in_observer"
                 /\ nodes[n].observers[1].node = m}

\* C15: at most one thread at a time is inside a node's handle_input and
\* result step.
C15_OneThreadPerNode ==
    \A m \in Ids : Cardinality(InsideHandleInput(m)) <= 1

RECURSIVE IsSubseq(_, _)
\* s is t with some elements left out, the order kept.
IsSubseq(s, t) ==
    IF s = <<>> THEN TRUE
    ELSE IF t = <<>> THEN FALSE
    ELSE IF Head(s) = Head(t) THEN IsSubseq(Tail(s), Tail(t))
    ELSE IsSubseq(s, Tail(t))
\* The invocations of node n that returned, in the order they were made.
Returns(n) == SelectSeq(calls[n], LAMBDA c : c.ok)

\* C16: for an AsyncWorker with one execution thread, the invocations are
\* made in the order their items were submitted, and the results are set
\* and notified in the order of the invocations that returned them: the
\* notified data are the results of the first returned invocations, in
\* order, and the value is the last one notified.
C16_SingleWorkerOrder ==
    \A n \in Ids :
        (IsAsync(n) /\ nodes[n].num_threads = 1) =>
            /\ IsSubseq([i \in 1..Len(calls[n]) |-> calls[n][i].args],
                        [i \in 1..Len(Submitted(n)) |-> Submitted(n)[i].args])
            /\ Len(emitted[n]) <= Len(Returns(n))
            /\ \A k \in 1..Len(emitted[n]) :
                   emitted[n][k].data = CallResult(n, Returns(n)[k])
            /\ emitted[n] # <<>> =>
                   value[n] = emitted[n][Len(emitted[n])].data

\* A node with one execution thread has notified two different results,
\* none of its invocations having raised.
C16_Witness ==
    \E n \in Ids :
        /\ IsAsync(n)
        /\ nodes[n].num_threads = 1
        /\ NoRaise(n)
        /\ Len(Submitted(n)) = 2
        /\ Len(emitted[n]) = 2
        /\ emitted[n][1].data # emitted[n][2].data

\* How many times x occurs in the sequence s.
Count(s, x) == Cardinality({i \in 1..Len(s) : s[i] = x})
\* Every element occurs in s at most as often as in t.
SubBag(s, t) == \A i \in 1..Len(s) : Count(s, s[i]) <= Count(t, s[i])
CallArgs(n) == [i \in 1..Len(calls[n]) |-> calls[n][i].args]
SubmittedArgs(n) == [i \in 1..Len(Submitted(n)) |-> Submitted(n)[i].args]
EmittedData(n) == [i \in 1..Len(emitted[n]) |-> emitted[n][i].data]
ReturnedData(n) ==
    [i \in 1..Len(Returns(n)) |-> CallResult(n, Returns(n)[i])]

\* C17: on an AsyncWorker with more than one execution thread each
\* submitted item is invoked at most once and each returned result is
\* notified at most once, and on a worker started once and never stopped,
\* with nothing waiting or in progress, every submitted item was invoked
\* and every returned result notified; the order of the notifications is
\* not that of the submissions (the witness).
C17_PoolDeliversOnce ==
    \A n \in Ids :
        (IsAsync(n) /\ nodes[n].num_threads > 1) =>
            /\ SubBag(CallArgs(n), SubmittedArgs(n))
            /\ SubBag(EmittedData(n), ReturnedData(n))
            /\ \A k \in 1..Len(emitted[n]) : emitted[n][k].ok
            /\ (is_alive /\ starts = 1 /\ Quiescent(n)) =>
                   /\ Len(calls[n]) = Len(Submitted(n))
                   /\ Len(emitted[n]) = Len(Returns(n))

\* Two items were submitted to a pool of execution threads, both returned
\* different results, and the result of the second was notified first;
\* nothing is waiting or in progress.
C17_Witness ==
    \E n \in Ids :
        /\ IsAsync(n)
        /\ nodes[n].num_threads > 1
        /\ is_alive
        /\ starts = 1
        /\ Quiescent(n)
        /\ Len(Submitted(n)) = 2
        /\ NoRaise(n)
        /\ Len(emitted[n]) = 2
        /\ emitted[n][1].data # emitted[n][2].data
        /\ emitted[n][1].data =
               TargetResult(nodes[n].target_func, Submitted(n)[2].args,
                            Submitted(n)[2].kwargs)
        /\ emitted[n][2].data =
               TargetResult(nodes[n].target_func, Submitted(n)[1].args,
                            Submitted(n)[1].kwargs)

\* C18: the result thread of a started async node ends only by taking a
\* poison pill from the result queue: no failure raised while a result is
\* delivered to a downstream observer ends its loop.
C18_ResultLoopSurvives ==
    \A n \in Ids : IsAsync(n) => result_thread[n].pc # "crashed"

\* C19: under fair scheduling, on a started AsyncWorker whose invocations
\* all end, by returning or by raising, join() returns; here its first
\* wait: worker_queue.join() called by join() eventually returns, every
\* item taken from the work queue being marked done.
C19_JoinReturns ==
    \A n \in NodeIds :
        (mpc = "join_worker_queue" /\ gi = n /\ is_alive)
            ~> (mpc # "join_worker_queue")

\* AsyncWorker.stop() of node n has returned and start() was not called
\* since.
Stopped(n) ==
    /\ IsAsync(n)
    /\ ~is_alive
    /\ \E k \in 1..Len(stop_log) : stop_log[k] = StopEvent(n, "return")

\* C20: from the return of AsyncWorker.stop() to the next start() no step
\* invokes the node's target, sets its value or notifies its output port;
\* worker.execute called meanwhile returns without error and its item
\* stays on the old work queue, nothing being taken from it; the next
\* start() gives the node fresh, empty queues, so those items are never
\* invoked.
C20_StoppedWorkerIdle ==
    [][\A n \in Ids : Stopped(n) =>
          /\ calls'[n] = calls[n]
          /\ value'[n] = value[n]
          /\ emitted'[n] = emitted[n]
          /\ \A k \in 1..Len(New(executes[n])) : ~New(executes[n])[k].raised
          /\ ~is_alive' =>
                 /\ IsPrefix(worker_queue[n].items, worker_queue'[n].items)
                 /\ Len(worker_queue'[n].items) =
                        Len(worker_queue[n].items) + Len(New(executes[n]))
                 /\ result_queue'[n] = result_queue[n]
          /\ is_alive' =>
                 /\ worker_queue'[n] = EmptyQueue
                 /\ result_queue'[n] = EmptyQueue]_vars

\* A node was started, stopped, had worker.execute called, and was started
\* again: the item was never invoked and the new work queue is empty.
C20_Witness ==
    \E n \in Ids :
        /\ IsAsync(n)
        /\ is_alive
        /\ starts = 2
        /\ Len(Submitted(n)) = 1
        /\ calls[n] = <<>>
        /\ worker_queue[n] = EmptyQueue
        /\ \A w \in 1..Len(worker_threads[n]) :
               worker_threads[n][w].pc = "get"

\* The positions at which two vectors of the same length differ.
Differ(s, t) == {p \in 1..Len(s) : s[p] # t[p]}

\* C21: a step in which handle_input(data, idx=port_idx) runs on a node
\* whose SyncWorker is not started writes data at position port_idx of the
\* cached reactive vector and leaves the node's invocations, value and
\* notifications as they were; no step that is not a trigger, start()
\* included, changes a cached vector; and every invocation a started
\* SyncWorker makes takes the cached vector with at most the triggered
\* position changed, so a value cached while not started is an argument of
\* the next invocation triggered on another position.
C21_UnstartedInputCached ==
    [][/\ \A n \in Ids : \A data \in Payloads :
              \A port_idx \in 0..(Len(nodes[n].reactive_input_ports) - 1) :
                  (ArgNotify(n, data, port_idx) /\ ~isStarted[n]) =>
                      /\ reactive_input_values'[n] =
                             [reactive_input_values[n]
                                 EXCEPT ![port_idx + 1] = data]
                      /\ calls'[n] = calls[n]
                      /\ value'[n] = value[n]
                      /\ emitted'[n] = emitted[n]
                      /\ port_log'[n] = port_log[n]
       /\ triggers' = triggers =>
              reactive_input_values' = reactive_input_values
       /\ \A n \in Ids : \A k \in 1..Len(New(calls[n])) :
              /\ isStarted[n]
              /\ Cardinality(Differ(New(calls[n])[k].args,
                                    reactive_input_values[n])) <= 1]_vars

\* add2 had position 1 written while its SyncWorker was not started, the
\* invocation being dropped; after start() a trigger on position 0 invoked
\* it with the value cached at position 1.
C21_Witness ==
    \E n \in Ids :
        /\ Len(reactive_input_values[n]) = 2
        /\ isStarted[n]
        /\ Len(executes[n]) = 2
        /\ executes[n][1].args[1] = NoneV
        /\ executes[n][1].args[2].k = "int"
        /\ Len(calls[n]) = 1
        /\ calls[n][1].ok
        /\ calls[n][1].args[1].k = "int"
        /\ calls[n][1].args[2] = executes[n][1].args[2]
        /\ value[n] = CallResult(n, calls[n][1])

====
